---- MODULE Spec2Model ----
(***************************************************************************)
(* Attendance-tracking backend (FastAPI + SQLAlchemy async session over    *)
(* PostgreSQL).  The four tables are the durable state; every request is   *)
(* handled by one task that runs its awaits in order.  Each await on the   *)
(* session (execute / commit / refresh) is one step of the handler, so the *)
(* steps of two requests may interleave.  A commit flushes the session's   *)
(* pending INSERT / UPDATE / DELETE and the storage engine enforces the    *)
(* constraints declared in app/models.py (NOT NULL, UNIQUE, FOREIGN KEY);  *)
(* a violated constraint surfaces as an unhandled IntegrityError, which    *)
(* the framework answers with HTTP 500.                                    *)
(* The columns created_at and updated_at are written by column defaults   *)
(* only and decide nothing in a handler; the tables are modelled without   *)
(* them.  Payloads are taken as valid for their schema (no 422).           *)
(***************************************************************************)
EXTENDS Integers, FiniteSets, Sequences, TLC

VARIABLES
    personas,        \* table personas:          id -> [rut, apellidos, nombres]
    asuntos,         \* table asuntos:           id -> [nombre, tipo, descripcion, coordinadora, lugar]
    instancias,      \* table asunto_instancias: id -> [asunto_id, fecha, lugar, coordinadora, observaciones]
    asistencias,     \* table asistencia:        id -> [persona_id, asunto_instancia_id, asistio, fecha_marcado]
    persona_seq,     \* last value issued by the id sequence of personas
    asunto_seq,      \* ... of asuntos
    instancia_seq,   \* ... of asunto_instancias
    asistencia_seq,  \* ... of asistencia
    pc,              \* per request slot: the await the handler is at, or "idle"
    req,             \* per request slot: the request and the handler's locals
    resp             \* per request slot: the response of the last completed request

tables == <<personas, asuntos, instancias, asistencias>>
seqs   == <<persona_seq, asunto_seq, instancia_seq, asistencia_seq>>
vars   == <<personas, asuntos, instancias, asistencias,
            persona_seq, asunto_seq, instancia_seq, asistencia_seq, pc, req, resp>>

(***************************************************************************)
(* Bounds of the model.                                                    *)
(***************************************************************************)
MaxSlots        == 2   \* requests that may be in flight together
MaxPersonaId    == 2   \* ids the personas sequence may issue
MaxAsuntoId     == 2
MaxInstanciaId  == 2
MaxAsistenciaId == 3

Slots    == 1 .. MaxSlots
SeqSlots == {1}        \* the slot used when requests run one at a time

NULL == "NULL"         \* SQL NULL / Python None

NoReq  == [op |-> "none"]
NoResp == [op |-> "none", status |-> 0]

EmptyTable == [i \in {} |-> NULL]

\* INSERT of `row` under primary key `id`.
Insert(t, id, row) == [i \in DOMAIN t \cup {id} |-> IF i = id THEN row ELSE t[i]]

\* DELETE of the row with primary key `id` (no row: nothing happens).
Remove(t, id) == [i \in DOMAIN t \ {id} |-> t[i]]

\* dict.get(key, default) on a JSON object; pydantic's Optional field read
\* through Get(payload, f, NULL): None when the field was not sent.
Get(d, key, default) == IF key \in DOMAIN d THEN d[key] ELSE default

\* Session flush of a loaded object: only the attributes whose value differs
\* from the loaded one are written, over the row as it is now in the table.
ApplyUpdate(cur, loaded, new) ==
    [f \in DOMAIN cur |-> IF new[f] # loaded[f] THEN new[f] ELSE cur[f]]

Changed(loaded, new) == {f \in DOMAIN loaded : new[f] # loaded[f]}

\* Model.dict(exclude_unset=True) followed by setattr for every key.
SetAttrs(obj, update_data) ==
    [f \in DOMAIN obj |-> IF f \in DOMAIN update_data THEN update_data[f] ELSE obj[f]]

(***************************************************************************)
(* Control: a request arrives at an idle slot, the handler moves from      *)
(* await to await, and the response ends it.                               *)
(***************************************************************************)
Goto(r, label, locals) ==
    /\ pc'   = [pc   EXCEPT ![r] = label]
    /\ req'  = [req  EXCEPT ![r] = locals]
    /\ resp' = [resp EXCEPT ![r] = NoResp]

Reply(r, status, body) ==
    /\ pc'   = [pc   EXCEPT ![r] = "idle"]
    /\ req'  = [req  EXCEPT ![r] = NoReq]
    /\ resp' = [resp EXCEPT ![r] = [op |-> req[r].op, status |-> status, body |-> body]]

\* An HTTPException raised by the handler.
Raise(r, status, detail) == Reply(r, status, [detail |-> detail])

\* An exception the handler does not catch.
ServerError(r) == Reply(r, 500, [detail |-> "Internal Server Error"])

\* Requests at or before the commit of an INSERT into one table.
Inserting(ops) == Cardinality({s \in Slots : pc[s] \in ops})

\* Bound of the model: a creating request is taken only while its table's id
\* sequence has an id left for it.
admit(q) ==
    CASE q.op = "create_persona" ->
           persona_seq + Inserting({"create_persona", "create_persona_commit"}) < MaxPersonaId
      [] q.op = "create_asunto" ->
           asunto_seq + Inserting({"create_asunto", "create_asunto_commit"}) < MaxAsuntoId
      [] q.op = "create_instancia" ->
           instancia_seq + Inserting({"create_instancia", "create_instancia_commit"}) < MaxInstanciaId
      [] q.op \in {"create_asistencia", "registrar_persona_instancia"} ->
           asistencia_seq + Inserting({"create_asistencia", "create_asistencia_existing",
                                       "create_asistencia_instancia", "create_asistencia_commit",
                                       "registrar_persona_instancia", "registrar_persona",
                                       "registrar_existing", "registrar_commit"}) < MaxAsistenciaId
      [] OTHER -> TRUE

\* The request `q` (its op names the handler) is dispatched to slot r; the
\* slot shows the previous response until the handler starts.
receive(r, q) ==
    /\ pc[r] = "idle"
    /\ admit(q)
    /\ pc'  = [pc  EXCEPT ![r] = q.op]
    /\ req' = [req EXCEPT ![r] = q]
    /\ UNCHANGED <<resp, tables, seqs>>

(***************************************************************************)
(* Storage-level constraints of app/models.py.                             *)
(***************************************************************************)
\* Variant: the rut column declared without unique=True.
persona_rut_not_unique(t, id, rut) == TRUE

\* personas.rut UNIQUE: no row other than `id` holds `rut`.
persona_rut_unique(t, id, rut) == \A i \in DOMAIN t \ {id} : t[i].rut # rut

\* personas: rut, apellidos, nombres NOT NULL.
persona_not_null(row) == row.rut # NULL /\ row.apellidos # NULL /\ row.nombres # NULL

\* Variant: persona_id declared without ForeignKey("personas.id").
persona_referenced_undeclared(id) == FALSE

\* asistencia.persona_id REFERENCES personas.id: a referenced row may not go.
persona_referenced(id) == \E a \in DOMAIN asistencias : asistencias[a].persona_id = id

\* asuntos.nombre UNIQUE.
asunto_nombre_unique(t, id, nombre) == \A i \in DOMAIN t \ {id} : t[i].nombre # nombre

\* asuntos: nombre, tipo, coordinadora, lugar NOT NULL (descripcion nullable).
asunto_not_null(row) ==
    row.nombre # NULL /\ row.tipo # NULL /\ row.coordinadora # NULL /\ row.lugar # NULL

\* asunto_instancias.asunto_id REFERENCES asuntos.id.
asunto_referenced(id) == \E i \in DOMAIN instancias : instancias[i].asunto_id = id

\* asunto_instancias: asunto_id, fecha NOT NULL, and the asunto must exist.
instancia_not_null(row) == row.fecha # NULL
instancia_fk(row) == row.asunto_id \in DOMAIN asuntos

\* asistencia.asunto_instancia_id REFERENCES asunto_instancias.id.
instancia_referenced(id) ==
    \E a \in DOMAIN asistencias : asistencias[a].asunto_instancia_id = id

\* asistencia: both references must exist when the row is written.
asistencia_fk(row) ==
    row.persona_id \in DOMAIN personas /\ row.asunto_instancia_id \in DOMAIN instancias

\* Variant: a UniqueConstraint("persona_id", "asunto_instancia_id") declared.
asistencia_pair_unique_declared(t, id, row) ==
    \A a \in DOMAIN t \ {id} :
        ~(t[a].persona_id = row.persona_id
          /\ t[a].asunto_instancia_id = row.asunto_instancia_id)

\* asistencia declares no UNIQUE over (persona_id, asunto_instancia_id): any
\* row passes.
asistencia_pair_unique(t, id, row) == TRUE

(***************************************************************************)
(* Persona handlers.                                                       *)
(***************************************************************************)
PersonaBody(id, row) ==
    [id |-> id, rut |-> row.rut, apellidos |-> row.apellidos, nombres |-> row.nombres]

\* Variant: the existence check compares the wrong column.
create_persona_existing_nombres(rut) == {i \in DOMAIN personas : personas[i].nombres = rut}

\* select(Persona).where(Persona.rut == persona.rut), scalar_one_or_none()
create_persona_existing(rut) == {i \in DOMAIN personas : personas[i].rut = rut}

create_persona(r) ==
    /\ pc[r] = "create_persona"
    /\ LET existing == create_persona_existing(req[r].persona.rut) IN
         IF Cardinality(existing) > 1 THEN ServerError(r)
         ELSE IF existing # {} THEN Raise(r, 400, "El RUT ya existe")
         ELSE Goto(r, "create_persona_commit", req[r])
    /\ UNCHANGED <<tables, seqs>>

create_persona_commit(r) ==
    /\ pc[r] = "create_persona_commit"
    /\ LET id  == persona_seq + 1
           row == [rut |-> req[r].persona.rut,
                   apellidos |-> req[r].persona.apellidos,
                   nombres |-> req[r].persona.nombres] IN
         /\ persona_seq' = id
         /\ IF persona_not_null(row) /\ persona_rut_unique(personas, id, row.rut)
            THEN /\ personas' = Insert(personas, id, row)
                 /\ Goto(r, "create_persona_refresh", req[r] @@ [id |-> id])
            ELSE /\ UNCHANGED personas
                 /\ ServerError(r)
    /\ UNCHANGED <<asuntos, instancias, asistencias, asunto_seq, instancia_seq, asistencia_seq>>

create_persona_refresh(r) ==
    /\ pc[r] = "create_persona_refresh"
    /\ IF req[r].id \in DOMAIN personas
       THEN Reply(r, 201, PersonaBody(req[r].id, personas[req[r].id]))
       ELSE ServerError(r)
    /\ UNCHANGED <<tables, seqs>>


\* persona_update.<field> is not None: the field was sent with a value.
persona_update_given(persona_update, f) == Get(persona_update, f, NULL) # NULL

update_persona(r) ==
    /\ pc[r] = "update_persona"
    /\ IF req[r].persona_id \notin DOMAIN personas
       THEN Raise(r, 404, "Persona no encontrada")
       ELSE LET db_persona == personas[req[r].persona_id]
                upd == req[r].persona_update
                new == [f \in DOMAIN db_persona |->
                          IF persona_update_given(upd, f) THEN upd[f] ELSE db_persona[f]] IN
              Goto(r, "update_persona_commit", req[r] @@ [loaded |-> db_persona, new |-> new])
    /\ UNCHANGED <<tables, seqs>>

update_persona_commit(r) ==
    /\ pc[r] = "update_persona_commit"
    /\ LET id == req[r].persona_id IN
         IF Changed(req[r].loaded, req[r].new) = {}
         THEN /\ UNCHANGED personas
              /\ Goto(r, "update_persona_refresh", req[r])
         ELSE IF id \notin DOMAIN personas
         THEN /\ UNCHANGED personas          \* UPDATE matched no row: StaleDataError
              /\ ServerError(r)
         ELSE LET row == ApplyUpdate(personas[id], req[r].loaded, req[r].new) IN
              IF persona_not_null(row) /\ persona_rut_unique(personas, id, row.rut)
              THEN /\ personas' = [personas EXCEPT ![id] = row]
                   /\ Goto(r, "update_persona_refresh", req[r])
              ELSE /\ UNCHANGED personas
                   /\ ServerError(r)
    /\ UNCHANGED <<asuntos, instancias, asistencias, seqs>>

update_persona_refresh(r) ==
    /\ pc[r] = "update_persona_refresh"
    /\ IF req[r].persona_id \in DOMAIN personas
       THEN Reply(r, 200, PersonaBody(req[r].persona_id, personas[req[r].persona_id]))
       ELSE ServerError(r)
    /\ UNCHANGED <<tables, seqs>>

delete_persona(r) ==
    /\ pc[r] = "delete_persona"
    /\ IF req[r].persona_id \notin DOMAIN personas
       THEN Raise(r, 404, "Persona no encontrada")
       ELSE Goto(r, "delete_persona_commit", req[r])
    /\ UNCHANGED <<tables, seqs>>

\* DELETE FROM personas WHERE id = ...; a row already gone only warns.
delete_persona_commit(r) ==
    /\ pc[r] = "delete_persona_commit"
    /\ IF persona_referenced(req[r].persona_id)
       THEN /\ UNCHANGED personas
            /\ ServerError(r)
       ELSE /\ personas' = Remove(personas, req[r].persona_id)
            /\ Reply(r, 204, [detail |-> NULL])
    /\ UNCHANGED <<asuntos, instancias, asistencias, seqs>>

(***************************************************************************)
(* Asunto handlers.                                                        *)
(***************************************************************************)
AsuntoBody(id, row) == row @@ [id |-> id]

\* select(Asunto).where(Asunto.nombre == asunto.nombre), scalar_one_or_none()
create_asunto_existing(nombre) == {i \in DOMAIN asuntos : asuntos[i].nombre = nombre}

create_asunto(r) ==
    /\ pc[r] = "create_asunto"
    /\ LET existing == create_asunto_existing(req[r].asunto.nombre) IN
         IF Cardinality(existing) > 1 THEN ServerError(r)
         ELSE IF existing # {} THEN Raise(r, 400, "El nombre del asunto ya existe")
         ELSE Goto(r, "create_asunto_commit", req[r])
    /\ UNCHANGED <<tables, seqs>>

create_asunto_commit(r) ==
    /\ pc[r] = "create_asunto_commit"
    /\ LET id  == asunto_seq + 1
           row == req[r].asunto IN
         /\ asunto_seq' = id
         /\ IF asunto_not_null(row) /\ asunto_nombre_unique(asuntos, id, row.nombre)
            THEN /\ asuntos' = Insert(asuntos, id, row)
                 /\ Goto(r, "create_asunto_refresh", req[r] @@ [id |-> id])
            ELSE /\ UNCHANGED asuntos
                 /\ ServerError(r)
    /\ UNCHANGED <<personas, instancias, asistencias, persona_seq, instancia_seq, asistencia_seq>>

create_asunto_refresh(r) ==
    /\ pc[r] = "create_asunto_refresh"
    /\ IF req[r].id \in DOMAIN asuntos
       THEN Reply(r, 201, AsuntoBody(req[r].id, asuntos[req[r].id]))
       ELSE ServerError(r)
    /\ UNCHANGED <<tables, seqs>>

update_asunto(r) ==
    /\ pc[r] = "update_asunto"
    /\ IF req[r].asunto_id \notin DOMAIN asuntos
       THEN Raise(r, 404, "Asunto no encontrado")
       ELSE LET db_asunto == asuntos[req[r].asunto_id] IN
              Goto(r, "update_asunto_commit",
                   req[r] @@ [loaded |-> db_asunto,
                              new |-> SetAttrs(db_asunto, req[r].asunto_update)])
    /\ UNCHANGED <<tables, seqs>>

update_asunto_commit(r) ==
    /\ pc[r] = "update_asunto_commit"
    /\ LET id == req[r].asunto_id IN
         IF Changed(req[r].loaded, req[r].new) = {}
         THEN /\ UNCHANGED asuntos
              /\ Goto(r, "update_asunto_refresh", req[r])
         ELSE IF id \notin DOMAIN asuntos
         THEN /\ UNCHANGED asuntos
              /\ ServerError(r)
         ELSE LET row == ApplyUpdate(asuntos[id], req[r].loaded, req[r].new) IN
              IF asunto_not_null(row) /\ asunto_nombre_unique(asuntos, id, row.nombre)
              THEN /\ asuntos' = [asuntos EXCEPT ![id] = row]
                   /\ Goto(r, "update_asunto_refresh", req[r])
              ELSE /\ UNCHANGED asuntos
                   /\ ServerError(r)
    /\ UNCHANGED <<personas, instancias, asistencias, seqs>>

update_asunto_refresh(r) ==
    /\ pc[r] = "update_asunto_refresh"
    /\ IF req[r].asunto_id \in DOMAIN asuntos
       THEN Reply(r, 200, AsuntoBody(req[r].asunto_id, asuntos[req[r].asunto_id]))
       ELSE ServerError(r)
    /\ UNCHANGED <<tables, seqs>>

delete_asunto(r) ==
    /\ pc[r] = "delete_asunto"
    /\ IF req[r].asunto_id \notin DOMAIN asuntos
       THEN Raise(r, 404, "Asunto no encontrado")
       ELSE Goto(r, "delete_asunto_commit", req[r])
    /\ UNCHANGED <<tables, seqs>>

delete_asunto_commit(r) ==
    /\ pc[r] = "delete_asunto_commit"
    /\ IF asunto_referenced(req[r].asunto_id)
       THEN /\ UNCHANGED asuntos
            /\ ServerError(r)
       ELSE /\ asuntos' = Remove(asuntos, req[r].asunto_id)
            /\ Reply(r, 204, [detail |-> NULL])
    /\ UNCHANGED <<personas, instancias, asistencias, seqs>>

(***************************************************************************)
(* Instancia handlers.                                                     *)
(***************************************************************************)
InstanciaBody(id, row) == row @@ [id |-> id]

\* select(func.count(Asistencia.id)).where(asunto_instancia_id == id)
registrados_count(id) ==
    Cardinality({a \in DOMAIN asistencias : asistencias[a].asunto_instancia_id = id})

\* Variant: the asistio filter left out of the second count.
presentes_count_unfiltered(id) ==
    Cardinality({a \in DOMAIN asistencias : asistencias[a].asunto_instancia_id = id})

\* ... .where((asunto_instancia_id == id) & (asistio == True))
presentes_count(id) ==
    Cardinality({a \in DOMAIN asistencias :
                    asistencias[a].asunto_instancia_id = id /\ asistencias[a].asistio = TRUE})

\* select(AsuntoInstancia).where(AsuntoInstancia.asunto_id == asunto_id)
instancias_por_asunto(asunto_id) ==
    {i \in DOMAIN instancias : instancias[i].asunto_id = asunto_id}

\* The instancia the loop of get_instancias_por_asunto is at (the result
\* carries no ORDER BY; the rows are taken by ascending id).
NextTodo(todo) == CHOOSE i \in todo : \A j \in todo : i <= j

get_instancias_por_asunto(r) ==
    /\ pc[r] = "get_instancias_por_asunto"
    /\ LET found == instancias_por_asunto(req[r].asunto_id)
           loaded == [i \in found |-> InstanciaBody(i, instancias[i])] IN
         IF found = {}
         THEN Goto(r, "get_instancias_asunto", req[r] @@ [items |-> loaded, todo |-> found])
         ELSE Goto(r, "get_instancias_registrados", req[r] @@ [items |-> loaded, todo |-> found])
    /\ UNCHANGED <<tables, seqs>>

\* Variant: an empty list always taken for a missing asunto.
asunto_exists_never(asunto_id) == FALSE

\* select(Asunto).where(Asunto.id == asunto_id), scalar_one_or_none()
asunto_exists(asunto_id) == asunto_id \in DOMAIN asuntos

\* The list is empty: does the asunto exist?
get_instancias_asunto(r) ==
    /\ pc[r] = "get_instancias_asunto"
    /\ IF ~asunto_exists(req[r].asunto_id)
       THEN Raise(r, 404, "Asunto no encontrado")
       ELSE Reply(r, 200, [items |-> req[r].items])
    /\ UNCHANGED <<tables, seqs>>

get_instancias_registrados(r) ==
    /\ pc[r] = "get_instancias_registrados"
    /\ LET i == NextTodo(req[r].todo) IN
         Goto(r, "get_instancias_presentes",
              [req[r] EXCEPT !.items[i] = @ @@ [registrados |-> registrados_count(i)]])
    /\ UNCHANGED <<tables, seqs>>

get_instancias_presentes(r) ==
    /\ pc[r] = "get_instancias_presentes"
    /\ LET i == NextTodo(req[r].todo)
           items == [req[r].items EXCEPT ![i] = @ @@ [presentes |-> presentes_count(i)]]
           todo == req[r].todo \ {i} IN
         IF todo = {}
         THEN Reply(r, 200, [items |-> items])
         ELSE Goto(r, "get_instancias_registrados",
                   [req[r] EXCEPT !.items = items, !.todo = todo])
    /\ UNCHANGED <<tables, seqs>>

get_instancia(r) ==
    /\ pc[r] = "get_instancia"
    /\ IF req[r].instancia_id \notin DOMAIN instancias
       THEN Raise(r, 404, "Instancia no encontrada")
       ELSE Goto(r, "get_instancia_registrados",
                 req[r] @@ [instancia |-> InstanciaBody(req[r].instancia_id,
                                                        instancias[req[r].instancia_id])])
    /\ UNCHANGED <<tables, seqs>>

get_instancia_registrados(r) ==
    /\ pc[r] = "get_instancia_registrados"
    /\ Goto(r, "get_instancia_presentes",
            req[r] @@ [registrados |-> registrados_count(req[r].instancia_id)])
    /\ UNCHANGED <<tables, seqs>>

get_instancia_presentes(r) ==
    /\ pc[r] = "get_instancia_presentes"
    /\ Reply(r, 200, req[r].instancia @@
                     [registrados |-> req[r].registrados,
                      presentes |-> presentes_count(req[r].instancia_id)])
    /\ UNCHANGED <<tables, seqs>>

create_instancia(r) ==
    /\ pc[r] = "create_instancia"
    /\ IF req[r].instancia.asunto_id \notin DOMAIN asuntos
       THEN Raise(r, 404, "Asunto no encontrado")
       ELSE Goto(r, "create_instancia_commit", req[r])
    /\ UNCHANGED <<tables, seqs>>

create_instancia_commit(r) ==
    /\ pc[r] = "create_instancia_commit"
    /\ LET id  == instancia_seq + 1
           row == req[r].instancia IN
         /\ instancia_seq' = id
         /\ IF instancia_not_null(row) /\ instancia_fk(row)
            THEN /\ instancias' = Insert(instancias, id, row)
                 /\ Goto(r, "create_instancia_refresh", req[r] @@ [id |-> id])
            ELSE /\ UNCHANGED instancias
                 /\ ServerError(r)
    /\ UNCHANGED <<personas, asuntos, asistencias, persona_seq, asunto_seq, asistencia_seq>>

create_instancia_refresh(r) ==
    /\ pc[r] = "create_instancia_refresh"
    /\ IF req[r].id \in DOMAIN instancias
       THEN Reply(r, 201, InstanciaBody(req[r].id, instancias[req[r].id]))
       ELSE ServerError(r)
    /\ UNCHANGED <<tables, seqs>>

\* Variant: asunto_id declared as a field of AsuntoInstanciaUpdate.
instancia_update_dict_with_asunto(body) ==
    [f \in DOMAIN body \cap {"asunto_id", "fecha", "lugar", "coordinadora", "observaciones"} |->
        body[f]]

\* AsuntoInstanciaUpdate parsed from the request body and .dict(exclude_unset=True):
\* the declared fields that were sent; any other key of the body is ignored.
instancia_update_dict(body) ==
    [f \in DOMAIN body \cap {"fecha", "lugar", "coordinadora", "observaciones"} |-> body[f]]

update_instancia(r) ==
    /\ pc[r] = "update_instancia"
    /\ IF req[r].instancia_id \notin DOMAIN instancias
       THEN Raise(r, 404, "Instancia no encontrada")
       ELSE LET db_instancia == instancias[req[r].instancia_id]
                update_data == instancia_update_dict(req[r].instancia_update) IN
              Goto(r, "update_instancia_commit",
                   req[r] @@ [loaded |-> db_instancia,
                              new |-> SetAttrs(db_instancia, update_data)])
    /\ UNCHANGED <<tables, seqs>>

update_instancia_commit(r) ==
    /\ pc[r] = "update_instancia_commit"
    /\ LET id == req[r].instancia_id IN
         IF Changed(req[r].loaded, req[r].new) = {}
         THEN /\ UNCHANGED instancias
              /\ Goto(r, "update_instancia_refresh", req[r])
         ELSE IF id \notin DOMAIN instancias
         THEN /\ UNCHANGED instancias
              /\ ServerError(r)
         ELSE LET row == ApplyUpdate(instancias[id], req[r].loaded, req[r].new) IN
              IF instancia_not_null(row)
              THEN /\ instancias' = [instancias EXCEPT ![id] = row]
                   /\ Goto(r, "update_instancia_refresh", req[r])
              ELSE /\ UNCHANGED instancias
                   /\ ServerError(r)
    /\ UNCHANGED <<personas, asuntos, asistencias, seqs>>

update_instancia_refresh(r) ==
    /\ pc[r] = "update_instancia_refresh"
    /\ IF req[r].instancia_id \in DOMAIN instancias
       THEN Reply(r, 200, InstanciaBody(req[r].instancia_id, instancias[req[r].instancia_id]))
       ELSE ServerError(r)
    /\ UNCHANGED <<tables, seqs>>

delete_instancia(r) ==
    /\ pc[r] = "delete_instancia"
    /\ IF req[r].instancia_id \notin DOMAIN instancias
       THEN Raise(r, 404, "Instancia no encontrada")
       ELSE Goto(r, "delete_instancia_commit", req[r])
    /\ UNCHANGED <<tables, seqs>>

delete_instancia_commit(r) ==
    /\ pc[r] = "delete_instancia_commit"
    /\ IF instancia_referenced(req[r].instancia_id)
       THEN /\ UNCHANGED instancias
            /\ ServerError(r)
       ELSE /\ instancias' = Remove(instancias, req[r].instancia_id)
            /\ Reply(r, 204, [detail |-> NULL])
    /\ UNCHANGED <<personas, asuntos, asistencias, seqs>>

(***************************************************************************)
(* Asistencia handlers.                                                    *)
(***************************************************************************)
Instants == {"t1", "t2"}     \* values datetime.utcnow() may return

AsistenciaBody(id, row) == row @@ [id |-> id]

\* Variant: the two ids compared against each other's column.
asistencia_existing_swapped(persona_id, instancia_id) ==
    {a \in DOMAIN asistencias :
        /\ asistencias[a].persona_id = instancia_id
        /\ asistencias[a].asunto_instancia_id = persona_id}

\* select(Asistencia).where((persona_id == p) & (asunto_instancia_id == i))
asistencia_existing(persona_id, instancia_id) ==
    {a \in DOMAIN asistencias :
        /\ asistencias[a].persona_id = persona_id
        /\ asistencias[a].asunto_instancia_id = instancia_id}

\* INSERT INTO asistencia: fecha_marcado is not given and stays NULL.
insert_asistencia(persona_id, instancia_id, asistio) ==
    [persona_id |-> persona_id, asunto_instancia_id |-> instancia_id,
     asistio |-> asistio, fecha_marcado |-> NULL]

create_asistencia(r) ==
    /\ pc[r] = "create_asistencia"
    /\ IF req[r].asistencia.persona_id \notin DOMAIN personas
       THEN Raise(r, 404, "Persona no encontrada")
       ELSE Goto(r, "create_asistencia_instancia", req[r])
    /\ UNCHANGED <<tables, seqs>>

create_asistencia_instancia(r) ==
    /\ pc[r] = "create_asistencia_instancia"
    /\ IF req[r].asistencia.asunto_instancia_id \notin DOMAIN instancias
       THEN Raise(r, 404, "Instancia no encontrada")
       ELSE Goto(r, "create_asistencia_existing", req[r])
    /\ UNCHANGED <<tables, seqs>>

create_asistencia_existing(r) ==
    /\ pc[r] = "create_asistencia_existing"
    /\ LET existing == asistencia_existing(req[r].asistencia.persona_id,
                                           req[r].asistencia.asunto_instancia_id) IN
         IF Cardinality(existing) > 1 THEN ServerError(r)    \* MultipleResultsFound
         ELSE IF existing # {}
         THEN Raise(r, 400, "Esta persona ya esta registrada en esta instancia")
         ELSE Goto(r, "create_asistencia_commit", req[r])
    /\ UNCHANGED <<tables, seqs>>

create_asistencia_commit(r) ==
    /\ pc[r] = "create_asistencia_commit"
    /\ LET id  == asistencia_seq + 1
           row == insert_asistencia(req[r].asistencia.persona_id,
                                    req[r].asistencia.asunto_instancia_id,
                                    req[r].asistencia.asistio) IN
         /\ asistencia_seq' = id
         /\ IF asistencia_fk(row) /\ asistencia_pair_unique(asistencias, id, row)
            THEN /\ asistencias' = Insert(asistencias, id, row)
                 /\ Goto(r, "create_asistencia_refresh", req[r] @@ [id |-> id])
            ELSE /\ UNCHANGED asistencias
                 /\ ServerError(r)
    /\ UNCHANGED <<personas, asuntos, instancias, persona_seq, asunto_seq, instancia_seq>>

create_asistencia_refresh(r) ==
    /\ pc[r] = "create_asistencia_refresh"
    /\ IF req[r].id \in DOMAIN asistencias
       THEN Reply(r, 201, AsistenciaBody(req[r].id, asistencias[req[r].id]))
       ELSE ServerError(r)
    /\ UNCHANGED <<tables, seqs>>

\* Variant: fecha_marcado stamped only when marking present.
mark_asistencia_present_only(db_asistencia, asistio, now) ==
    [db_asistencia EXCEPT !.asistio = asistio,
                          !.fecha_marcado = IF asistio THEN now ELSE @]

\* db_asistencia.asistio = asistencia_update.asistio
\* db_asistencia.fecha_marcado = datetime.utcnow()
mark_asistencia(db_asistencia, asistio, now) ==
    [db_asistencia EXCEPT !.asistio = asistio, !.fecha_marcado = now]

\* The mark: datetime.utcnow() is an instant later than the one the row was
\* last stamped with.
update_asistencia(r) ==
    /\ pc[r] = "update_asistencia"
    /\ IF req[r].asistencia_id \notin DOMAIN asistencias
       THEN Raise(r, 404, "Registro de asistencia no encontrado")
       ELSE LET db_asistencia == asistencias[req[r].asistencia_id] IN
              \E now \in Instants \ {db_asistencia.fecha_marcado} :
                 Goto(r, "update_asistencia_commit",
                      req[r] @@ [loaded |-> db_asistencia,
                                 new |-> mark_asistencia(db_asistencia,
                                                         req[r].asistencia_update.asistio,
                                                         now)])
    /\ UNCHANGED <<tables, seqs>>

update_asistencia_commit(r) ==
    /\ pc[r] = "update_asistencia_commit"
    /\ LET id == req[r].asistencia_id IN
         IF id \notin DOMAIN asistencias
         THEN /\ UNCHANGED asistencias      \* UPDATE matched no row: StaleDataError
              /\ ServerError(r)
         ELSE /\ asistencias' = [asistencias EXCEPT
                                    ![id] = ApplyUpdate(@, req[r].loaded, req[r].new)]
              /\ Goto(r, "update_asistencia_refresh", req[r])
    /\ UNCHANGED <<personas, asuntos, instancias, seqs>>

update_asistencia_refresh(r) ==
    /\ pc[r] = "update_asistencia_refresh"
    /\ IF req[r].asistencia_id \in DOMAIN asistencias
       THEN Reply(r, 200, AsistenciaBody(req[r].asistencia_id,
                                         asistencias[req[r].asistencia_id]))
       ELSE ServerError(r)
    /\ UNCHANGED <<tables, seqs>>

delete_asistencia(r) ==
    /\ pc[r] = "delete_asistencia"
    /\ IF req[r].asistencia_id \notin DOMAIN asistencias
       THEN Raise(r, 404, "Registro de asistencia no encontrado")
       ELSE Goto(r, "delete_asistencia_commit", req[r])
    /\ UNCHANGED <<tables, seqs>>

delete_asistencia_commit(r) ==
    /\ pc[r] = "delete_asistencia_commit"
    /\ asistencias' = Remove(asistencias, req[r].asistencia_id)
    /\ Reply(r, 204, [detail |-> NULL])
    /\ UNCHANGED <<personas, asuntos, instancias, seqs>>

\* data.get("persona_id"): 0 stands for a missing, null or zero persona_id,
\* all of which `not persona_id` rejects.
registrar_persona_instancia(r) ==
    /\ pc[r] = "registrar_persona_instancia"
    /\ LET persona_id == Get(req[r].data, "persona_id", 0)
           asistio == Get(req[r].data, "asistio", FALSE) IN
         IF persona_id = 0
         THEN Raise(r, 400, "persona_id es requerido")
         ELSE IF req[r].instancia_id \notin DOMAIN instancias
         THEN Raise(r, 404, "Instancia no encontrada")
         ELSE Goto(r, "registrar_persona",
                   req[r] @@ [persona_id |-> persona_id, asistio |-> asistio])
    /\ UNCHANGED <<tables, seqs>>

registrar_persona(r) ==
    /\ pc[r] = "registrar_persona"
    /\ IF req[r].persona_id \notin DOMAIN personas
       THEN Raise(r, 404, "Persona no encontrada")
       ELSE Goto(r, "registrar_existing", req[r])
    /\ UNCHANGED <<tables, seqs>>

\* Variant: the register endpoint raising the strict endpoint's conflict.
registrar_existing_conflict(r) ==
    /\ pc[r] = "registrar_existing"
    /\ LET existing == asistencia_existing(req[r].persona_id, req[r].instancia_id) IN
         IF Cardinality(existing) > 1 THEN ServerError(r)
         ELSE IF existing # {}
         THEN Raise(r, 400, "Persona ya esta registrada")
         ELSE Goto(r, "registrar_commit", req[r])
    /\ UNCHANGED <<tables, seqs>>

registrar_existing(r) ==
    /\ pc[r] = "registrar_existing"
    /\ LET existing == asistencia_existing(req[r].persona_id, req[r].instancia_id) IN
         IF Cardinality(existing) > 1 THEN ServerError(r)    \* MultipleResultsFound
         ELSE IF existing # {}
         THEN Reply(r, 201, [message |-> "Persona ya esta registrada"])
         ELSE Goto(r, "registrar_commit", req[r])
    /\ UNCHANGED <<tables, seqs>>

registrar_commit(r) ==
    /\ pc[r] = "registrar_commit"
    /\ LET id  == asistencia_seq + 1
           row == insert_asistencia(req[r].persona_id, req[r].instancia_id, req[r].asistio) IN
         /\ asistencia_seq' = id
         /\ IF asistencia_fk(row) /\ asistencia_pair_unique(asistencias, id, row)
            THEN /\ asistencias' = Insert(asistencias, id, row)
                 /\ Goto(r, "registrar_refresh", req[r] @@ [id |-> id])
            ELSE /\ UNCHANGED asistencias
                 /\ ServerError(r)
    /\ UNCHANGED <<personas, asuntos, instancias, persona_seq, asunto_seq, instancia_seq>>

registrar_refresh(r) ==
    /\ pc[r] = "registrar_refresh"
    /\ IF req[r].id \in DOMAIN asistencias
       THEN Reply(r, 201, [id |-> req[r].id, persona_id |-> req[r].persona_id,
                           asistio |-> req[r].asistio])
       ELSE ServerError(r)
    /\ UNCHANGED <<tables, seqs>>

\* The values of the date column, oldest first, and the position of one of
\* them: fecha is compared as a date, not as text.
Dates == <<"2024-01-10", "2024-02-20">>
DateOrd(fecha) == CHOOSE k \in 1 .. Len(Dates) : Dates[k] = fecha

\* Python's `a or b`: b when a is falsy (None or the empty string).
Or(a, b) == IF a = NULL \/ a = "" THEN b ELSE a

\* select(Asistencia, AsuntoInstancia, Asunto).join(AsuntoInstancia).join(Asunto)
\*     .where(Asistencia.persona_id == persona_id): the inner joins keep a row
\* only with its instancia and that one's asunto.
registros_por_persona(persona_id) ==
    {a \in DOMAIN asistencias :
        /\ asistencias[a].persona_id = persona_id
        /\ asistencias[a].asunto_instancia_id \in DOMAIN instancias
        /\ instancias[asistencias[a].asunto_instancia_id].asunto_id \in DOMAIN asuntos}

\* .order_by(AsuntoInstancia.fecha.desc()): any order of the rows in which no
\* fecha is followed by a later one (rows of one fecha come in any order).
ordered_by_fecha_desc(rows) ==
    {s \in [1 .. Cardinality(rows) -> rows] :
        /\ \A i, j \in DOMAIN s : i # j => s[i] # s[j]
        /\ \A i, j \in DOMAIN s :
              i < j => DateOrd(instancias[asistencias[s[i]].asunto_instancia_id].fecha)
                         >= DateOrd(instancias[asistencias[s[j]].asunto_instancia_id].fecha)}

\* One element of `responses`.
historial_entry(a) ==
    LET asistencia == asistencias[a]
        instancia == instancias[asistencia.asunto_instancia_id]
        asunto == asuntos[instancia.asunto_id] IN
    [id |-> a,
     asunto |-> asunto.nombre,
     fecha |-> instancia.fecha,
     asistio |-> asistencia.asistio,
     lugar |-> Or(instancia.lugar, asunto.lugar),
     coordinadora |-> Or(instancia.coordinadora, asunto.coordinadora)]

get_asistencia_por_persona(r) ==
    /\ pc[r] = "get_asistencia_por_persona"
    /\ IF req[r].persona_id \notin DOMAIN personas
       THEN Raise(r, 404, "Persona no encontrada")
       ELSE Goto(r, "get_asistencia_registros", req[r])
    /\ UNCHANGED <<tables, seqs>>

get_asistencia_registros(r) ==
    /\ pc[r] = "get_asistencia_registros"
    /\ \E registros \in ordered_by_fecha_desc(registros_por_persona(req[r].persona_id)) :
          Reply(r, 200, [items |-> [k \in DOMAIN registros |-> historial_entry(registros[k])]])
    /\ UNCHANGED <<tables, seqs>>

Init ==
    /\ personas = EmptyTable
    /\ asuntos = EmptyTable
    /\ instancias = EmptyTable
    /\ asistencias = EmptyTable
    /\ persona_seq = 0
    /\ asunto_seq = 0
    /\ instancia_seq = 0
    /\ asistencia_seq = 0
    /\ pc = [r \in Slots |-> "idle"]
    /\ req = [r \in Slots |-> NoReq]
    /\ resp = [r \in Slots |-> NoResp]

(***************************************************************************)
(* The requests the environment sends.                                     *)
(***************************************************************************)
PersonaIds == 1 .. MaxPersonaId

PersonaCreates ==
    {[op |-> "create_persona", persona |-> [rut |-> rut, apellidos |-> "a1", nombres |-> "n1"]] :
        rut \in {"r1", "r2"}}

PersonaRutUpdates ==
    {[op |-> "update_persona", persona_id |-> id, persona_update |-> u] :
        id \in PersonaIds, u \in {[rut |-> "r1"], [rut |-> "r2"], [apellidos |-> "a2"]}}

PersonaDeletes == {[op |-> "delete_persona", persona_id |-> id] : id \in PersonaIds}

AsuntoIds == 1 .. MaxAsuntoId
InstanciaIds == 1 .. MaxInstanciaId
AsistenciaIds == 1 .. MaxAsistenciaId

InstanciaCreates(asunto_ids) ==
    {[op |-> "create_instancia",
      instancia |-> [asunto_id |-> a, fecha |-> "2024-01-10", lugar |-> NULL,
                     coordinadora |-> NULL, observaciones |-> NULL]] : a \in asunto_ids}

AsistenciaCreates(persona_ids, instancia_ids) ==
    {[op |-> "create_asistencia",
      asistencia |-> [persona_id |-> p, asunto_instancia_id |-> i, asistio |-> FALSE]] :
        p \in persona_ids, i \in instancia_ids}

\* The register payload is an untyped object: persona_id alone, with asistio,
\* or neither.
Registrars(persona_ids, instancia_ids) ==
    {[op |-> "registrar_persona_instancia", instancia_id |-> i, data |-> d] :
        i \in instancia_ids,
        d \in {[persona_id |-> p] : p \in persona_ids}
              \cup {[persona_id |-> p, asistio |-> TRUE] : p \in persona_ids}
              \cup {[asistio |-> TRUE]}}

Marks == {[op |-> "update_asistencia", asistencia_id |-> a, asistencia_update |-> [asistio |-> v]] :
             a \in AsistenciaIds, v \in BOOLEAN}

AsistenciaDeletes == {[op |-> "delete_asistencia", asistencia_id |-> a] : a \in AsistenciaIds}

\* Partial-update payloads: a record of the fields that were sent, a field
\* sent as null among them.
PersonaUpdates ==
    {[op |-> "update_persona", persona_id |-> id, persona_update |-> u] :
        id \in PersonaIds,
        u \in {[rut |-> "r2"], [apellidos |-> "a2"], [rut |-> NULL],
               [rut |-> "r1", apellidos |-> "a1"]}}

AsuntoUpdates ==
    {[op |-> "update_asunto", asunto_id |-> id, asunto_update |-> u] :
        id \in AsuntoIds,
        u \in {[descripcion |-> "d2"], [descripcion |-> NULL], [lugar |-> NULL],
               [nombre |-> "n2", lugar |-> "l2"]}}

InstanciaUpdates ==
    {[op |-> "update_instancia", instancia_id |-> id, instancia_update |-> u] :
        id \in InstanciaIds,
        u \in {[fecha |-> "2024-02-20"], [lugar |-> "l2"], [lugar |-> NULL],
               [fecha |-> NULL]}}

InstanciaGets == {[op |-> "get_instancia", instancia_id |-> i] : i \in InstanciaIds}

InstanciaLists == {[op |-> "get_instancias_por_asunto", asunto_id |-> a] : a \in AsuntoIds}

AsuntoDeletes == {[op |-> "delete_asunto", asunto_id |-> a] : a \in AsuntoIds}

InstanciaDeletes == {[op |-> "delete_instancia", instancia_id |-> i] : i \in InstanciaIds}

AsuntoCreates ==
    {[op |-> "create_asunto",
      asunto |-> [nombre |-> nombre, tipo |-> "taller", descripcion |-> NULL,
                  coordinadora |-> "c1", lugar |-> "l1"]] : nombre \in {"n1", "n2"}}

(***************************************************************************)
(* Persona requests, interleaved (SpecPersona) and one at a time           *)
(* (SpecPersonaSeq).                                                       *)
(***************************************************************************)
PersonaStep(r) ==
    \/ \E q \in PersonaCreates \cup PersonaRutUpdates \cup PersonaDeletes : receive(r, q)
    \/ create_persona(r)
    \/ create_persona_commit(r)
    \/ create_persona_refresh(r)
    \/ update_persona(r)
    \/ update_persona_commit(r)
    \/ update_persona_refresh(r)
    \/ delete_persona(r)
    \/ delete_persona_commit(r)

NextPersona == \E r \in Slots : PersonaStep(r)

SpecPersona == Init /\ [][NextPersona]_vars

NextPersonaSeq == \E r \in SeqSlots : PersonaStep(r)

SpecPersonaSeq == Init /\ [][NextPersonaSeq]_vars

\* Slot r takes a step / ends its request in this step.
Steps(r) == pc'[r] # pc[r] \/ req'[r] # req[r]
Completes(r) == pc[r] # "idle" /\ pc'[r] = "idle"

WithRut(t, rut) == {i \in DOMAIN t : t[i].rut = rut}

(***************************************************************************)
(* C3: with requests run one at a time, a create-person request whose      *)
(* national ID is not stored is carried through to 201 and stores exactly  *)
(* one Person with that ID; one whose ID is stored is answered 400 with    *)
(* the table untouched.  So of two creates with the same ID run one after  *)
(* the other, the first having succeeded, the second is the CONFLICT and   *)
(* exactly one Person with that ID is stored.                              *)
(***************************************************************************)
C3_Step(r) ==
    LET rut == req[r].persona.rut IN
    /\ pc[r] = "create_persona" =>
          /\ WithRut(personas, rut) = {} => pc'[r] = "create_persona_commit"
          /\ WithRut(personas, rut) # {} =>
                resp'[r].status = 400 /\ personas' = personas
          /\ (resp[r].status = 201 /\ resp[r].op = "create_persona" /\ resp[r].body.rut = rut) =>
                /\ resp'[r].status = 400
                /\ Cardinality(WithRut(personas', rut)) = 1
    /\ pc[r] = "create_persona_commit" =>
          /\ pc'[r] = "create_persona_refresh"
          /\ Cardinality(WithRut(personas', rut)) = 1
    /\ pc[r] = "create_persona_refresh" =>
          /\ resp'[r].status = 201
          /\ resp'[r].body.rut = rut
          /\ WithRut(personas', rut) = {resp'[r].body.id}

\* C3: every step of a create-person request, run alone, satisfies C3_Step:
\* success for a new national ID, 400 for a stored one, one Person per ID.
C3_CreateTwice == [][\A r \in SeqSlots : Steps(r) => C3_Step(r)]_vars

\* The second create of a pair has been answered 400 and one Person holds the ID.
C3_Witness ==
    /\ resp[1].status = 400
    /\ resp[1].op = "create_persona"
    /\ pc[1] = "idle"
    /\ Cardinality(DOMAIN personas) = 1

(***************************************************************************)
(* C4: under any interleaving of create, update and delete requests, no    *)
(* two stored Persons share a national ID.                                 *)
(***************************************************************************)
C4_RutUnique ==
    \A i, j \in DOMAIN personas : i # j => personas[i].rut # personas[j].rut

\* An update that would have given a Person the ID of another one was refused.
C4_Witness ==
    \E r \in Slots :
        /\ resp[r].status = 500
        /\ resp[r].op = "update_persona"
        /\ Cardinality(DOMAIN personas) = 2
(***************************************************************************)
(* Create-asunto requests, interleaved.                                    *)
(***************************************************************************)
NextAsunto ==
    \E r \in Slots :
        \/ \E q \in AsuntoCreates : receive(r, q)
        \/ create_asunto(r)
        \/ create_asunto_commit(r)
        \/ create_asunto_refresh(r)

SpecAsunto == Init /\ [][NextAsunto]_vars

(***************************************************************************)
(* C5: every create-activity request is answered either with success (201) *)
(* or with CONFLICT (400), whatever the interleaving of the check and      *)
(* commit steps of two requests carrying the same name.                    *)
(***************************************************************************)
C5_CreateOrConflict ==
    \A r \in Slots : resp[r].status # 0 => resp[r].status \in {201, 400}
(***************************************************************************)
(* Attendance-creating requests for one (Person, Instance) pair,           *)
(* interleaved, after the Person, the Activity and the Instance were made. *)
(***************************************************************************)
AsistenciaRequests ==
    {q \in PersonaCreates : q.persona.rut = "r1"}
    \cup {q \in AsuntoCreates : q.asunto.nombre = "n1"}
    \cup InstanciaCreates({1})
    \cup AsistenciaCreates({1}, {1})
    \cup Registrars({1}, {1})

AsistenciaStep(r) ==
    \/ create_persona(r)
    \/ create_persona_commit(r)
    \/ create_persona_refresh(r)
    \/ create_asunto(r)
    \/ create_asunto_commit(r)
    \/ create_asunto_refresh(r)
    \/ create_instancia(r)
    \/ create_instancia_commit(r)
    \/ create_instancia_refresh(r)
    \/ create_asistencia(r)
    \/ create_asistencia_instancia(r)
    \/ create_asistencia_existing(r)
    \/ create_asistencia_commit(r)
    \/ create_asistencia_refresh(r)
    \/ registrar_persona_instancia(r)
    \/ registrar_persona(r)
    \/ registrar_existing(r)
    \/ registrar_commit(r)
    \/ registrar_refresh(r)

NextAsistencia ==
    \E r \in Slots :
        \/ \E q \in AsistenciaRequests : receive(r, q)
        \/ AsistenciaStep(r)

SpecAsistencia == Init /\ [][NextAsistencia]_vars

SamePair(t, a, b) ==
    /\ t[a].persona_id = t[b].persona_id
    /\ t[a].asunto_instancia_id = t[b].asunto_instancia_id

(***************************************************************************)
(* C2: the storage engine holds no unique constraint over the pair, so a   *)
(* request that has passed its existence check inserts its row when it     *)
(* commits, whether or not a row for the pair was committed meanwhile; two *)
(* interleaved requests for one pair thus leave two rows for it.           *)
(***************************************************************************)
C2_Step(r) ==
    LET id == asistencia_seq + 1
        row == IF pc[r] = "create_asistencia_commit"
               THEN insert_asistencia(req[r].asistencia.persona_id,
                                      req[r].asistencia.asunto_instancia_id,
                                      req[r].asistencia.asistio)
               ELSE insert_asistencia(req[r].persona_id, req[r].instancia_id, req[r].asistio) IN
    (pc[r] \in {"create_asistencia_commit", "registrar_commit"} /\ asistencia_fk(row)) =>
        /\ asistencias' = Insert(asistencias, id, row)
        /\ pc'[r] \in {"create_asistencia_refresh", "registrar_refresh"}

\* C2: every commit of an attendance-creating request inserts its row, also
\* when a row for the pair is already stored.
C2_RaceInserts == [][\A r \in Slots : Steps(r) => C2_Step(r)]_vars

\* Two rows for one pair, one made by each endpoint's request.
C2_Witness ==
    \E a, b \in DOMAIN asistencias :
        /\ a # b
        /\ SamePair(asistencias, a, b)
        /\ asistencias[a].asistio # asistencias[b].asistio

(***************************************************************************)
(* All attendance requests, one at a time, over two Persons and two        *)
(* Instances of one Activity.                                              *)
(***************************************************************************)
SeqRequests ==
    PersonaCreates
    \cup {q \in AsuntoCreates : q.asunto.nombre = "n1"}
    \cup InstanciaCreates({1})
    \cup AsistenciaCreates(PersonaIds, InstanciaIds)
    \cup Registrars(PersonaIds, InstanciaIds)
    \cup Marks
    \cup AsistenciaDeletes
    \cup InstanciaGets
    \cup InstanciaLists

SeqStep(r) ==
    \/ AsistenciaStep(r)
    \/ update_asistencia(r)
    \/ update_asistencia_commit(r)
    \/ update_asistencia_refresh(r)
    \/ delete_asistencia(r)
    \/ delete_asistencia_commit(r)
    \/ get_instancia(r)
    \/ get_instancia_registrados(r)
    \/ get_instancia_presentes(r)
    \/ get_instancias_por_asunto(r)
    \/ get_instancias_asunto(r)
    \/ get_instancias_registrados(r)
    \/ get_instancias_presentes(r)

NextSeq ==
    \E r \in SeqSlots :
        \/ \E q \in SeqRequests : receive(r, q)
        \/ SeqStep(r)

SpecSeq == Init /\ [][NextSeq]_vars

(***************************************************************************)
(* C1: with requests run one at a time, no two Attendance rows hold the    *)
(* same (Person, Instance) pair.                                           *)
(***************************************************************************)
C1_OneRowPerPair ==
    \A a, b \in DOMAIN asistencias : a # b => ~SamePair(asistencias, a, b)

\* A strict create was refused for a stored pair while another pair is stored too.
C1_Witness ==
    /\ resp[1].status = 400
    /\ resp[1].op = "create_asistencia"
    /\ Cardinality(DOMAIN asistencias) >= 2

(***************************************************************************)
(* C6: an Instance read (single get, or list for its Activity) returns     *)
(* registrados = the number of Attendance rows referencing it and          *)
(* presentes = the number of those with asistio = true, so presentes <=    *)
(* registrados; and an Instance that was just created has no row.          *)
(***************************************************************************)
RowsOf(t, i) == {a \in DOMAIN t : t[a].asunto_instancia_id = i}
PresentOf(t, i) == {a \in RowsOf(t, i) : t[a].asistio}

C6_Counted(item) ==
    /\ item.registrados = Cardinality(RowsOf(asistencias', item.id))
    /\ item.presentes = Cardinality(PresentOf(asistencias', item.id))
    /\ item.presentes <= item.registrados

C6_Step(r) ==
    /\ (pc[r] = "get_instancia_presentes" /\ resp'[r].status = 200) =>
          /\ resp'[r].body.id = req[r].instancia_id
          /\ C6_Counted(resp'[r].body)
    /\ (pc[r] \in {"get_instancias_presentes", "get_instancias_asunto"}
            /\ resp'[r].status = 200) =>
          \A i \in DOMAIN resp'[r].body.items : C6_Counted(resp'[r].body.items[i])
    /\ (pc[r] = "create_instancia_refresh" /\ resp'[r].status = 201) =>
          RowsOf(asistencias', resp'[r].body.id) = {}

\* C6: every completed Instance read and Instance create satisfies C6_Step:
\* the counts returned are those of the stored Attendance rows.
C6_Counts == [][\A r \in SeqSlots : Completes(r) => C6_Step(r)]_vars

\* A read that counted two registered, one of them present.
C6_Witness ==
    /\ resp[1].status = 200
    /\ resp[1].op = "get_instancia"
    /\ resp[1].body.registrados = 2
    /\ resp[1].body.presentes = 1

(***************************************************************************)
(* C7: once a row is stored for a pair, a strict create for the pair ends  *)
(* in 400 and a register for it ends in the informational non-error        *)
(* response; no step of either request changes the Attendance table.       *)
(***************************************************************************)
C7_Pair(r) ==
    IF req[r].op = "create_asistencia"
    THEN <<req[r].asistencia.persona_id, req[r].asistencia.asunto_instancia_id>>
    ELSE <<Get(req[r].data, "persona_id", 0), req[r].instancia_id>>

C7_Step(r) ==
    (/\ pc[r] \in {"create_asistencia", "create_asistencia_instancia",
                    "create_asistencia_existing", "registrar_persona_instancia",
                    "registrar_persona", "registrar_existing"}
     /\ \E a \in DOMAIN asistencias :
           <<asistencias[a].persona_id, asistencias[a].asunto_instancia_id>> = C7_Pair(r)) =>
        /\ asistencias' = asistencias
        /\ asistencia_seq' = asistencia_seq
        /\ pc'[r] \in {"create_asistencia_instancia", "create_asistencia_existing",
                        "registrar_persona", "registrar_existing", "idle"}
        /\ (pc'[r] = "idle" /\ req[r].op = "create_asistencia") => resp'[r].status = 400
        /\ (pc'[r] = "idle" /\ req[r].op = "registrar_persona_instancia") =>
              /\ resp'[r].status = 201
              /\ DOMAIN resp'[r].body = {"message"}

\* C7: every step of a create or register for a stored pair satisfies C7_Step:
\* 400 resp. the informational response, and no change to the table.
C7_SecondRegister ==
    [][\A r \in SeqSlots : Steps(r) => C7_Step(r)]_vars

\* The informational response, given for a row that is marked present.
C7_Witness ==
    /\ resp[1].status = 201
    /\ resp[1].op = "registrar_persona_instancia"
    /\ "message" \in DOMAIN resp[1].body
    /\ \E a \in DOMAIN asistencias : asistencias[a].asistio

(***************************************************************************)
(* C9: an Attendance row is inserted with fecha_marcado unset; only the    *)
(* commit of a mark on that row changes it; every mark, present or absent, *)
(* stores the requested asistio and a fecha_marcado; and a set             *)
(* fecha_marcado is never unset.                                           *)
(***************************************************************************)
C9_Step(r) ==
    /\ \A a \in DOMAIN asistencias' \ DOMAIN asistencias :
          asistencias'[a].fecha_marcado = NULL
    /\ \A a \in DOMAIN asistencias' \cap DOMAIN asistencias :
          /\ asistencias'[a].fecha_marcado # asistencias[a].fecha_marcado =>
                pc[r] = "update_asistencia_commit" /\ req[r].asistencia_id = a
          /\ asistencias[a].fecha_marcado # NULL => asistencias'[a].fecha_marcado # NULL
    /\ pc[r] = "update_asistencia_commit" =>
          /\ pc'[r] = "update_asistencia_refresh"
          /\ asistencias'[req[r].asistencia_id].asistio = req[r].asistencia_update.asistio
          /\ asistencias'[req[r].asistencia_id].fecha_marcado \in Instants
    /\ pc[r] = "update_asistencia_refresh" =>
          /\ resp'[r].status = 200
          /\ resp'[r].body.asistio = req[r].asistencia_update.asistio
          /\ resp'[r].body.fecha_marcado \in Instants

\* C9: every step satisfies C9_Step: fecha_marcado unset at insert, set by
\* every mark together with the requested asistio, never unset again.
C9_TimeMarked == [][\A r \in SeqSlots : Steps(r) => C9_Step(r)]_vars

\* A row marked absent carries a fecha_marcado.
C9_Witness ==
    \E a \in DOMAIN asistencias :
        /\ ~asistencias[a].asistio
        /\ asistencias[a].fecha_marcado # NULL
        /\ resp[1].op = "update_asistencia"
        /\ resp[1].status = 200

(***************************************************************************)
(* Activities and their Instances created, deleted and listed, one request *)
(* at a time.                                                              *)
(***************************************************************************)
InstanciaRequests ==
    AsuntoCreates \cup AsuntoDeletes \cup InstanciaCreates(AsuntoIds)
    \cup InstanciaDeletes \cup InstanciaLists

NextInstancia ==
    \E r \in SeqSlots :
        \/ \E q \in InstanciaRequests : receive(r, q)
        \/ create_asunto(r)
        \/ create_asunto_commit(r)
        \/ create_asunto_refresh(r)
        \/ delete_asunto(r)
        \/ delete_asunto_commit(r)
        \/ create_instancia(r)
        \/ create_instancia_commit(r)
        \/ create_instancia_refresh(r)
        \/ delete_instancia(r)
        \/ delete_instancia_commit(r)
        \/ get_instancias_por_asunto(r)
        \/ get_instancias_asunto(r)
        \/ get_instancias_registrados(r)
        \/ get_instancias_presentes(r)

SpecInstancia == Init /\ [][NextInstancia]_vars

(***************************************************************************)
(* C10: listing the Instances of an Activity answers 404 exactly when no   *)
(* Activity has that id; otherwise it answers 200 with exactly the         *)
(* Instances whose asunto_id is that id (none: the empty list).            *)
(***************************************************************************)
C10_Step(r) ==
    req[r].op = "get_instancias_por_asunto" =>
        /\ resp'[r].status \in {200, 404}
        /\ resp'[r].status = 404 <=> req[r].asunto_id \notin DOMAIN asuntos'
        /\ resp'[r].status = 200 =>
              /\ DOMAIN resp'[r].body.items =
                    {i \in DOMAIN instancias' : instancias'[i].asunto_id = req[r].asunto_id}
              /\ \A i \in DOMAIN resp'[r].body.items :
                    /\ resp'[r].body.items[i].id = i
                    /\ resp'[r].body.items[i].asunto_id = req[r].asunto_id
                    /\ resp'[r].body.items[i].fecha = instancias'[i].fecha

\* C10: every completed listing satisfies C10_Step: 404 exactly for a missing
\* Activity, else exactly the Instances of the Activity.
C10_ListOrNotFound == [][\A r \in SeqSlots : Completes(r) => C10_Step(r)]_vars

\* The empty list, for an Activity that exists while another one has an Instance.
C10_Witness ==
    /\ resp[1].status = 200
    /\ resp[1].op = "get_instancias_por_asunto"
    /\ DOMAIN resp[1].body.items = {}
    /\ instancias # EmptyTable

(***************************************************************************)
(* Persons, Activities and Instances created and updated, one request at a *)
(* time.                                                                   *)
(***************************************************************************)
UpdateRequests ==
    PersonaCreates \cup PersonaUpdates \cup AsuntoCreates \cup AsuntoUpdates
    \cup InstanciaCreates({1}) \cup InstanciaUpdates

NextUpdate ==
    \E r \in SeqSlots :
        \/ \E q \in UpdateRequests : receive(r, q)
        \/ create_persona(r)
        \/ create_persona_commit(r)
        \/ create_persona_refresh(r)
        \/ update_persona(r)
        \/ update_persona_commit(r)
        \/ update_persona_refresh(r)
        \/ create_asunto(r)
        \/ create_asunto_commit(r)
        \/ create_asunto_refresh(r)
        \/ update_asunto(r)
        \/ update_asunto_commit(r)
        \/ update_asunto_refresh(r)
        \/ create_instancia(r)
        \/ create_instancia_commit(r)
        \/ create_instancia_refresh(r)
        \/ update_instancia(r)
        \/ update_instancia_commit(r)
        \/ update_instancia_refresh(r)

SpecUpdate == Init /\ [][NextUpdate]_vars

(***************************************************************************)
(* C8: an update that succeeds sets exactly the fields present in the      *)
(* payload to the payload's values and leaves the other fields of the row, *)
(* the other rows and the other tables as they were.                       *)
(***************************************************************************)
C8_Applied(t, t2, id, payload) ==
    /\ DOMAIN t2 = DOMAIN t
    /\ \A i \in DOMAIN t \ {id} : t2[i] = t[i]
    /\ \A f \in DOMAIN t[id] :
          t2[id][f] = IF f \in DOMAIN payload THEN payload[f] ELSE t[id][f]

C8_Step(r) ==
    /\ (pc[r] = "update_persona_commit" /\ pc'[r] = "update_persona_refresh") =>
          /\ C8_Applied(personas, personas', req[r].persona_id, req[r].persona_update)
          /\ UNCHANGED <<asuntos, instancias, asistencias>>
    /\ (pc[r] = "update_asunto_commit" /\ pc'[r] = "update_asunto_refresh") =>
          /\ C8_Applied(asuntos, asuntos', req[r].asunto_id, req[r].asunto_update)
          /\ UNCHANGED <<personas, instancias, asistencias>>
    /\ (pc[r] = "update_instancia_commit" /\ pc'[r] = "update_instancia_refresh") =>
          /\ C8_Applied(instancias, instancias', req[r].instancia_id, req[r].instancia_update)
          /\ UNCHANGED <<personas, asuntos, asistencias>>
    /\ pc[r] \in {"update_persona_refresh", "update_asunto_refresh", "update_instancia_refresh"} =>
          /\ resp'[r].status = 200
          /\ UNCHANGED tables

HistorialAsuntoCreates ==
    {[op |-> "create_asunto",
      asunto |-> [nombre |-> "n1", tipo |-> "taller", descripcion |-> NULL,
                  coordinadora |-> "c1", lugar |-> "l1"]],
     [op |-> "create_asunto",
      asunto |-> [nombre |-> "n2", tipo |-> "taller", descripcion |-> NULL,
                  coordinadora |-> "c3", lugar |-> "l3"]]}

\* lugar and coordinadora of an Instance: not sent, sent with a value, sent empty.
HistorialInstanciaCreates ==
    {[op |-> "create_instancia",
      instancia |-> [asunto_id |-> a, fecha |-> Dates[k], lugar |-> o.lugar,
                     coordinadora |-> o.coordinadora, observaciones |-> NULL]] :
        a \in AsuntoIds, k \in DOMAIN Dates,
        o \in {[lugar |-> NULL, coordinadora |-> NULL],
               [lugar |-> "l2", coordinadora |-> "c2"],
               [lugar |-> "", coordinadora |-> ""]}}

Historiales == {[op |-> "get_asistencia_por_persona", persona_id |-> p] : p \in PersonaIds}

HistorialRequests ==
    PersonaCreates \cup HistorialAsuntoCreates \cup HistorialInstanciaCreates
    \cup AsistenciaCreates(PersonaIds, InstanciaIds) \cup Historiales

NextHistorial ==
    \E r \in SeqSlots :
        \/ \E q \in HistorialRequests : receive(r, q)
        \/ create_persona(r)
        \/ create_persona_commit(r)
        \/ create_persona_refresh(r)
        \/ create_asunto(r)
        \/ create_asunto_commit(r)
        \/ create_asunto_refresh(r)
        \/ create_instancia(r)
        \/ create_instancia_commit(r)
        \/ create_instancia_refresh(r)
        \/ create_asistencia(r)
        \/ create_asistencia_instancia(r)
        \/ create_asistencia_existing(r)
        \/ create_asistencia_commit(r)
        \/ create_asistencia_refresh(r)
        \/ get_asistencia_por_persona(r)
        \/ get_asistencia_registros(r)

SpecHistorial == Init /\ [][NextHistorial]_vars

(***************************************************************************)
(* C11: the history of an existing Person has one entry per Attendance row *)
(* of the Person, no entry dated later than one before it, and in each     *)
(* entry the Instance's lugar / coordinadora when the Instance holds one   *)
(* (the column is not null) and the owning Activity's when it holds none.  *)
(***************************************************************************)
C11_Override(override, value) == IF override # NULL THEN override ELSE value

C11_Step(r) ==
    (req[r].op = "get_asistencia_por_persona" /\ req[r].persona_id \in DOMAIN personas) =>
        /\ resp'[r].status = 200
        /\ LET items == resp'[r].body.items
               rows == {a \in DOMAIN asistencias : asistencias[a].persona_id = req[r].persona_id} IN
             /\ Len(items) = Cardinality(rows)
             /\ {items[k].id : k \in DOMAIN items} = rows
             /\ \A i, j \in DOMAIN items :
                   i < j => DateOrd(items[i].fecha) >= DateOrd(items[j].fecha)
             /\ \A k \in DOMAIN items :
                   LET instancia == instancias[asistencias[items[k].id].asunto_instancia_id]
                       asunto == asuntos[instancia.asunto_id] IN
                     /\ items[k].fecha = instancia.fecha
                     /\ items[k].lugar = C11_Override(instancia.lugar, asunto.lugar)
                     /\ items[k].coordinadora =
                           C11_Override(instancia.coordinadora, asunto.coordinadora)

\* C11: every completed history request for an existing Person satisfies
\* C11_Step: one entry per row of the Person, dates never increasing, and the
\* Instance's override, when it holds one, else the Activity's value.
C11_History == [][\A r \in SeqSlots : Completes(r) => C11_Step(r)]_vars

(***************************************************************************)
(* Attendance created and registered, one request at a time, for Persons   *)
(* and Instances that exist, that were never created and that were         *)
(* deleted.  Identifier 0 is never issued by a sequence.                   *)
(***************************************************************************)
NotFoundRequests ==
    {q \in PersonaCreates : q.persona.rut = "r1"}
    \cup {q \in AsuntoCreates : q.asunto.nombre = "n1"}
    \cup InstanciaCreates({1})
    \cup PersonaDeletes
    \cup InstanciaDeletes
    \cup AsistenciaCreates(PersonaIds \cup {0}, InstanciaIds)
    \cup Registrars(PersonaIds \cup {0}, InstanciaIds)
    \cup AsistenciaDeletes

NextNotFound ==
    \E r \in SeqSlots :
        \/ \E q \in NotFoundRequests : receive(r, q)
        \/ AsistenciaStep(r)
        \/ delete_persona(r)
        \/ delete_persona_commit(r)
        \/ delete_instancia(r)
        \/ delete_instancia_commit(r)
        \/ delete_asistencia(r)
        \/ delete_asistencia_commit(r)

SpecNotFound == Init /\ [][NextNotFound]_vars

(***************************************************************************)
(* C12: a strict create or a register whose payload names a Person and an  *)
(* Instance of which one is not stored takes no step that changes the      *)
(* Attendance table and is answered 404.                                   *)
(***************************************************************************)
C12_Names(q) ==
    /\ q.op \in {"create_asistencia", "registrar_persona_instancia"}
    /\ q.op = "registrar_persona_instancia" => "persona_id" \in DOMAIN q.data

C12_Persona(q) ==
    IF q.op = "create_asistencia" THEN q.asistencia.persona_id ELSE q.data.persona_id

C12_Instancia(q) ==
    IF q.op = "create_asistencia" THEN q.asistencia.asunto_instancia_id ELSE q.instancia_id

C12_Step(r) ==
    (/\ C12_Names(req[r])
     /\ \/ C12_Persona(req[r]) \notin DOMAIN personas
        \/ C12_Instancia(req[r]) \notin DOMAIN instancias) =>
        /\ asistencias' = asistencias
        /\ pc'[r] \notin {"create_asistencia_commit", "registrar_commit"}
        /\ pc'[r] = "idle" => resp'[r].status = 404

\* C12: every step of a create or register that names a Person or an Instance
\* which is not stored satisfies C12_Step: the Attendance rows stay as they
\* were and the answer is 404.
C12_NotFound == [][\A r \in SeqSlots : Steps(r) => C12_Step(r)]_vars

(***************************************************************************)
(* Instances updated and Attendance marked, one request at a time, by      *)
(* request bodies that also carry the reference fields.                    *)
(***************************************************************************)
ReferenceInstanciaUpdates ==
    {[op |-> "update_instancia", instancia_id |-> id, instancia_update |-> u] :
        id \in InstanciaIds,
        u \in {[asunto_id |-> 2, lugar |-> "l2"], [fecha |-> Dates[2]]}}

ReferenceMarks ==
    {[op |-> "update_asistencia", asistencia_id |-> a,
      asistencia_update |-> [asistio |-> TRUE, persona_id |-> 2, asunto_instancia_id |-> 2]] :
        a \in AsistenciaIds}

ReferenceRequests ==
    {q \in PersonaCreates : q.persona.rut = "r1"}
    \cup AsuntoCreates \cup InstanciaCreates(AsuntoIds)
    \cup AsistenciaCreates({1}, InstanciaIds)
    \cup ReferenceInstanciaUpdates \cup ReferenceMarks

NextReference ==
    \E r \in SeqSlots :
        \/ \E q \in ReferenceRequests : receive(r, q)
        \/ create_persona(r)
        \/ create_persona_commit(r)
        \/ create_persona_refresh(r)
        \/ create_asunto(r)
        \/ create_asunto_commit(r)
        \/ create_asunto_refresh(r)
        \/ create_instancia(r)
        \/ create_instancia_commit(r)
        \/ create_instancia_refresh(r)
        \/ create_asistencia(r)
        \/ create_asistencia_instancia(r)
        \/ create_asistencia_existing(r)
        \/ create_asistencia_commit(r)
        \/ create_asistencia_refresh(r)
        \/ update_instancia(r)
        \/ update_instancia_commit(r)
        \/ update_instancia_refresh(r)
        \/ update_asistencia(r)
        \/ update_asistencia_commit(r)
        \/ update_asistencia_refresh(r)

SpecReference == Init /\ [][NextReference]_vars

(***************************************************************************)
(* C13: no step changes the asunto_id of a stored Instance or the          *)
(* persona_id / asunto_instancia_id of a stored Attendance row; and a step *)
(* of an update-instance or mark request neither adds nor removes a row of *)
(* any table nor issues an identifier, and answers with the identifier and *)
(* the references of the row it was sent for.                              *)
(***************************************************************************)
C13_Step(r) ==
    /\ \A i \in DOMAIN instancias \cap DOMAIN instancias' :
          instancias'[i].asunto_id = instancias[i].asunto_id
    /\ \A a \in DOMAIN asistencias \cap DOMAIN asistencias' :
          /\ asistencias'[a].persona_id = asistencias[a].persona_id
          /\ asistencias'[a].asunto_instancia_id = asistencias[a].asunto_instancia_id
    /\ req[r].op \in {"update_instancia", "update_asistencia"} =>
          /\ DOMAIN personas' = DOMAIN personas
          /\ DOMAIN asuntos' = DOMAIN asuntos
          /\ DOMAIN instancias' = DOMAIN instancias
          /\ DOMAIN asistencias' = DOMAIN asistencias
          /\ seqs' = seqs
    /\ (req[r].op = "update_instancia" /\ pc'[r] = "idle" /\ resp'[r].status = 200) =>
          /\ resp'[r].body.id = req[r].instancia_id
          /\ resp'[r].body.asunto_id = req[r].loaded.asunto_id
    /\ (req[r].op = "update_asistencia" /\ pc'[r] = "idle" /\ resp'[r].status = 200) =>
          /\ resp'[r].body.id = req[r].asistencia_id
          /\ resp'[r].body.persona_id = req[r].loaded.persona_id
          /\ resp'[r].body.asunto_instancia_id = req[r].loaded.asunto_instancia_id

\* C13: every step satisfies C13_Step: the references of Instances and of
\* Attendance rows, and the identifiers, stay what they were at creation
\* across update-instance and mark-attendance requests.
C13_References == [][\A r \in SeqSlots : Steps(r) => C13_Step(r)]_vars

\* An update whose body named Activity 2 was applied (its lugar is stored) to
\* an Instance that still belongs to Activity 1, and a row was marked.
C13_Witness ==
    /\ 2 \in DOMAIN asuntos
    /\ \E i \in DOMAIN instancias :
          instancias[i].asunto_id = 1 /\ instancias[i].lugar = "l2"
    /\ \E a \in DOMAIN asistencias :
          /\ asistencias[a].asistio
          /\ asistencias[a].persona_id = 1
          /\ asistencias[a].asunto_instancia_id = 1
    /\ 2 \in DOMAIN instancias

(***************************************************************************)
(* Create and delete requests on the four tables, interleaved.  The        *)
(* requests name the first identifier of each table; a row created after   *)
(* it was deleted gets the next identifier.                                *)
(***************************************************************************)
IntegrityRequests ==
    {q \in PersonaCreates : q.persona.rut = "r1"}
    \cup {q \in AsuntoCreates : q.asunto.nombre = "n1"}
    \cup InstanciaCreates({1})
    \cup AsistenciaCreates({1}, {1})
    \cup {q \in PersonaDeletes : q.persona_id = 1}
    \cup {q \in AsuntoDeletes : q.asunto_id = 1}
    \cup {q \in InstanciaDeletes : q.instancia_id = 1}
    \cup {q \in AsistenciaDeletes : q.asistencia_id = 1}

NextIntegrity ==
    \E r \in Slots :
        \/ \E q \in IntegrityRequests : receive(r, q)
        \/ create_persona(r)
        \/ create_persona_commit(r)
        \/ create_persona_refresh(r)
        \/ delete_persona(r)
        \/ delete_persona_commit(r)
        \/ create_asunto(r)
        \/ create_asunto_commit(r)
        \/ create_asunto_refresh(r)
        \/ delete_asunto(r)
        \/ delete_asunto_commit(r)
        \/ create_instancia(r)
        \/ create_instancia_commit(r)
        \/ create_instancia_refresh(r)
        \/ delete_instancia(r)
        \/ delete_instancia_commit(r)
        \/ create_asistencia(r)
        \/ create_asistencia_instancia(r)
        \/ create_asistencia_existing(r)
        \/ create_asistencia_commit(r)
        \/ create_asistencia_refresh(r)
        \/ delete_asistencia(r)
        \/ delete_asistencia_commit(r)

SpecIntegrity == Init /\ [][NextIntegrity]_vars

\* C14: in every reachable state each Attendance row's Person and Instance
\* are stored and each Instance's Activity is stored: no create or delete,
\* however interleaved, leaves a dangling reference.
C14_NoDangling ==
    /\ \A a \in DOMAIN asistencias :
          /\ asistencias[a].persona_id \in DOMAIN personas
          /\ asistencias[a].asunto_instancia_id \in DOMAIN instancias
    /\ \A i \in DOMAIN instancias : instancias[i].asunto_id \in DOMAIN asuntos

\* The delete of a Person that an Attendance row references was refused and
\* the row and the Person are both stored.
C14_Witness ==
    \E r \in Slots :
        /\ resp[r].op = "delete_persona"
        /\ resp[r].status = 500
        /\ \E a \in DOMAIN asistencias : asistencias[a].persona_id \in DOMAIN personas
====
